---- MODULE Spec2Model ----
(***************************************************************************)
(* Model of translate_srt_ru.py: the block parser, the batch translator    *)
(* (structured attempts, then the per-line fallback), the reassembly of    *)
(* translate_file and the per-file loop of main.                           *)
(*                                                                         *)
(* A Python str is a sequence of one-character strings; the text of a file *)
(* is the sequence of its physical lines, terminators included.  A         *)
(* response of the oracle to a structured prompt is a sequence of JSON     *)
(* tokens (brackets, scalar and object values, prose, whitespace);         *)
(* json.loads is a parser over such sequences.                             *)
(***************************************************************************)
EXTENDS Integers, Sequences, FiniteSets, TLC

VARIABLES
    pc,                 \* position of the single thread of control
    lines,              \* translate_lines: its argument (translate_file's text_lines)
    attempt,            \* translate_lines: loop variable of the structured loop
    pos,                \* translate_lines: position of the fallback loop in lines
    translated_lines,   \* the fallback's accumulator, then the value returned
    exc,                \* the exception being propagated, "" when none
    log,                \* the oracle calls of the current translate_lines call
    calls,              \* number of oracle calls made for the current file
    path,               \* translate_file: the input file's name
    out_path,           \* translate_file: the output file's name
    blocks,             \* translate_file: the parsed blocks
    start,              \* translate_file: loop variable of the batch loop
    line_counts,        \* translate_file: text-line count of each block of the batch
    invoked,            \* number of translate_lines calls made by translate_file
    disk,               \* file name -> [exists, data]
    srt_files,          \* main: sorted list of discovered files
    fidx,               \* main: position of the file loop in srt_files
    found,              \* main: counters and the error list
    translated,
    skipped,
    errors,
    attempted,          \* main: the files translate_file was called with, in order
    exit_code           \* main: the value returned, -1 while running

tl_vars == <<lines, attempt, pos, translated_lines, log, calls>>
tf_vars == <<path, out_path, blocks, start, line_counts, invoked>>
main_vars == <<srt_files, fidx, found, translated, skipped, errors, attempted, exit_code>>
vars == <<pc, exc, tl_vars, tf_vars, disk, main_vars>>

(***************************************************************************)
(* Bounds of the model and constants of the program.                       *)
(***************************************************************************)
MaxLines == 2

BATCH_SIZE == 50

\* the loops over long lists are evaluated in runs of this many iterations
Run == 12

MaxAttempts == 3

Min(a, b) == IF a < b THEN a ELSE b

(***************************************************************************)
(* Python str helpers.                                                     *)
(***************************************************************************)
Whitespace == {" ", "\t", "\n", "\r"}

RECURSIVE LStrip(_, _)
LStrip(s, ws) ==
    IF s = <<>> THEN s
    ELSE IF Head(s) \in ws THEN LStrip(Tail(s), ws) ELSE s

RECURSIVE RStrip(_, _)
RStrip(s, ws) ==
    IF s = <<>> THEN s
    ELSE IF s[Len(s)] \in ws THEN RStrip(SubSeq(s, 1, Len(s) - 1), ws) ELSE s

\* a strip that drops nothing
strip_nothing(s, ws) == s

\* str.strip(): drop the leading and the trailing whitespace
Strip(s, ws) == RStrip(LStrip(s, ws), ws)

\* a physical line without its terminator ("\r\n", "\n" or "\r")
strip_eol(chunk) ==
    LET n == Len(chunk)
    IN  IF n >= 2 /\ chunk[n - 1] = "\r" /\ chunk[n] = "\n" THEN SubSeq(chunk, 1, n - 2)
        ELSE IF n >= 1 /\ chunk[n] \in {"\n", "\r"} THEN SubSeq(chunk, 1, n - 1)
        ELSE chunk

\* str.splitlines(): the lines of a text without their terminators.  A text is
\* the sequence of its physical lines, each with its terminator (the last one
\* possibly without)
splitlines(text) == [i \in 1..Len(text) |-> strip_eol(text[i])]

\* the loop without the test of line 21: every blank line closes a block
RECURSIVE ParseFromAlwaysCloses(_, _, _)
ParseFromAlwaysCloses(ls, j, st) ==
    IF st.i > j THEN st
    ELSE IF Strip(ls[st.i], Whitespace) = <<>>
         THEN ParseFromAlwaysCloses(ls, j, [i |-> st.i + 1,
                                            blocks |-> Append(st.blocks, st.current),
                                            current |-> <<>>])
    ELSE ParseFromAlwaysCloses(ls, j, [st EXCEPT !.i = st.i + 1,
                                                 !.current = Append(st.current, ls[st.i])])

\* lines 19-25: the loop from its state st (the next line i, blocks, current)
\* up to the line j
RECURSIVE ParseFrom(_, _, _)
ParseFrom(ls, j, st) ==
    IF st.i > j THEN st
    ELSE IF Strip(ls[st.i], Whitespace) = <<>>
         THEN (IF st.current # <<>>
               THEN ParseFrom(ls, j, [i |-> st.i + 1,
                                      blocks |-> Append(st.blocks, st.current),
                                      current |-> <<>>])
               ELSE ParseFrom(ls, j, [st EXCEPT !.i = st.i + 1]))
    ELSE ParseFrom(ls, j, [st EXCEPT !.i = st.i + 1,
                                     !.current = Append(st.current, ls[st.i])])

\* the same loop, evaluated in runs of Run lines
RECURSIVE ParseRuns(_, _)
ParseRuns(ls, st) ==
    IF st.i > Len(ls) THEN st
    ELSE ParseRuns(ls, ParseFrom(ls, Min(st.i + Run - 1, Len(ls)), st))

\* the parser without lines 26-27: a block still open at the end is lost
parse_closed_blocks(text) ==
    ParseRuns(splitlines(text), [i |-> 1, blocks |-> <<>>, current |-> <<>>]).blocks

\* lines 15-28
parse_srt_blocks(text) ==
    LET st == ParseRuns(splitlines(text), [i |-> 1, blocks |-> <<>>, current |-> <<>>])
    IN  IF st.current # <<>> THEN Append(st.blocks, st.current) ELSE st.blocks

(***************************************************************************)
(* Python values met in a translation result.                              *)
(***************************************************************************)
Str(s) == [t |-> "str", s |-> s]
None == [t |-> "None", s |-> <<>>]

(***************************************************************************)
(* JSON tokens and json.loads.                                             *)
(***************************************************************************)
Tok(k, has, v) == [k |-> k, has |-> has, v |-> v, items |-> <<>>]
LB == Tok("[", FALSE, None)
RB == Tok("]", FALSE, None)
Prose == Tok("prose", FALSE, None)
WsTok == Tok("ws", FALSE, None)
Obj(v) == Tok("object", TRUE, v)        \* {"id": .., "text": v}
ObjNoText == Tok("object", FALSE, None) \* {"id": ..}
JStr(s) == Tok("string", FALSE, Str(s))
JNull == Tok("null", FALSE, None)
JArray(items) == [k |-> "array", has |-> FALSE, v |-> None, items |-> items]

ScalarKinds == {"object", "string", "null"}

ParseFail == [ok |-> FALSE, v |-> JNull, n |-> 0]

RECURSIVE ParseValue(_, _), ParseItems(_, _, _)
ParseValue(raw, i) ==
    IF i > Len(raw) THEN ParseFail
    ELSE IF raw[i].k = "ws" THEN ParseValue(raw, i + 1)
    ELSE IF raw[i].k = "[" THEN ParseItems(raw, i + 1, <<>>)
    ELSE IF raw[i].k \in ScalarKinds THEN [ok |-> TRUE, v |-> raw[i], n |-> i + 1]
    ELSE ParseFail

ParseItems(raw, i, acc) ==
    IF i > Len(raw) THEN ParseFail
    ELSE IF raw[i].k = "ws" THEN ParseItems(raw, i + 1, acc)
    ELSE IF raw[i].k = "]" THEN [ok |-> TRUE, v |-> JArray(acc), n |-> i + 1]
    ELSE LET r == ParseValue(raw, i)
         IN  IF r.ok THEN ParseItems(raw, r.n, Append(acc, r.v)) ELSE ParseFail

\* json.loads(raw): ok is FALSE where json.loads raises JSONDecodeError
json_loads(raw) ==
    LET r == ParseValue(raw, 1)
    IN  IF r.ok /\ \A j \in r.n..Len(raw) : raw[j].k = "ws"
        THEN [ok |-> TRUE, v |-> r.v]
        ELSE [ok |-> FALSE, v |-> JNull]

\* str.find / str.rfind of a bracket: 0-based index, -1 when absent
find(raw, k) ==
    LET hits == {i \in 1..Len(raw) : raw[i].k = k}
    IN  IF hits = {} THEN -1 ELSE (CHOOSE i \in hits : \A j \in hits : i <= j) - 1

rfind(raw, k) ==
    LET hits == {i \in 1..Len(raw) : raw[i].k = k}
    IN  IF hits = {} THEN -1 ELSE (CHOOSE i \in hits : \A j \in hits : i >= j) - 1

\* raw[a : b] with 0 <= a and 0 <= b
Slice(raw, a, b) == SubSeq(raw, a + 1, Min(b, Len(raw)))

(***************************************************************************)
(* What the oracle may write into the output file of one invocation.       *)
(***************************************************************************)
SeqsUpTo(S, n) == UNION {[1..k -> S] : k \in 0..n}

Ru == <<"r">>

Elements == {Obj(Str(Ru)), ObjNoText, Obj(None), JStr(Ru), JNull}

Arr(items) == <<LB>> \o items \o <<RB>>

\* responses to a structured prompt: a bare array, an array wrapped in prose;
\* an array of objects or of strings wrapped in whitespace, after a stray
\* bracket, or nested in an array; a bare value; prose with and without
\* brackets; nothing
Responses ==
    LET arrays == {Arr(a) : a \in SeqsUpTo(Elements, MaxLines)}
        uniform == {Arr([i \in 1..k |-> e]) : k \in 0..MaxLines, e \in {Obj(Str(Ru)), JStr(Ru)}}
    IN  arrays
        \cup {<<Prose>> \o a \o <<Prose>> : a \in arrays}
        \cup {<<WsTok>> \o a \o <<WsTok>> : a \in uniform}
        \cup {<<LB>> \o a : a \in uniform}
        \cup {Arr(a) : a \in uniform}
        \cup {<<e>> : e \in Elements}
        \cup {<<>>, <<Prose>>, <<LB, Prose, RB>>, <<RB, Prose, LB>>, <<Prose, RB>>}

\* responses to a single-line prompt
Answers == {Ru, <<" ", "r", "\n">>, <<"\n">>}

\* call_codex: the output file's text, stripped (ws: the whitespace of the alphabet)
call_codex(output, ws) == Strip(output, ws)

(***************************************************************************)
(* translate_lines: one structured attempt on a response.                  *)
(***************************************************************************)
\* a loop that takes its second iteration for the last one
LastAttemptEarly == MaxAttempts - 2

\* lines 86 and 99: attempt == 2
LastAttempt == 2

\* an entry test that never takes the early return
no_lines_never(ls) == ls # ls

\* line 64: not lines
no_lines(ls) == ls = <<>>

\* item.get("text", "")
get_text(item) == IF item.has THEN item.v ELSE Str(<<>>)

\* str(item)
py_str(item) ==
    CASE item.k = "string" -> item.v.s
      [] item.k = "object" -> <<"{", "}">>
      [] item.k = "array" -> <<"[", "]">>
      [] OTHER -> <<"N", "o", "n", "e">>

\* "" if item is None else str(item)
coerce(item) == IF item.k = "null" THEN Str(<<>>) ELSE Str(py_str(item))

is_dict(item) == item.k = "object"

\* a length test that lets a shorter list through
same_length_or_shorter(xs, ys) == Len(xs) <= Len(ys)

\* lines 91, 96 and 113
same_length(xs, ys) == Len(xs) = Len(ys)

Return(texts) == [act |-> "return", texts |-> texts, exc |-> ""]
Raise(e) == [act |-> "raise", texts |-> <<>>, exc |-> e]
NextAttempt == [act |-> "continue", texts |-> <<>>, exc |-> ""]
Break == [act |-> "break", texts |-> <<>>, exc |-> ""]

\* lines 91-100: validate the parsed value and extract the texts
validate(value, ls, att) ==
    LET items == value.items
        n == Len(items)
        discard == IF att = LastAttempt THEN Break ELSE NextAttempt
    IN  IF value.k = "array" /\ same_length(items, ls)
        THEN IF items # <<>> /\ is_dict(items[1])
             THEN IF \E i \in 1..n : ~is_dict(items[i])
                  THEN Raise("AttributeError")
                  ELSE LET texts == [i \in 1..n |-> get_text(items[i])]
                       IN  IF same_length(texts, ls) THEN Return(texts) ELSE discard
             ELSE LET texts == [i \in 1..n |-> coerce(items[i])]
                  IN  IF same_length(texts, ls) THEN Return(texts) ELSE discard
        ELSE discard

\* lines 80-100: what one iteration of the structured loop does with raw
structured_attempt(raw, ls, att) ==
    LET direct == json_loads(raw)
        s == find(raw, "[")
        e == rfind(raw, "]")
        sub == json_loads(Slice(raw, s, e + 1))
    IN  IF direct.ok THEN validate(direct.v, ls, att)
        ELSE IF s = -1 \/ e = -1
             THEN (IF att = LastAttempt THEN Raise("ValueError") ELSE NextAttempt)
        ELSE IF sub.ok THEN validate(sub.v, ls, att)
        ELSE Raise("JSONDecodeError")

(***************************************************************************)
(* The record kept of each oracle call: what was sent, how the response    *)
(* parses (observed on the response itself) and what the code did with it. *)
(***************************************************************************)
ResponseClass(raw, ls) ==
    LET direct == json_loads(raw)
        s == find(raw, "[")
        e == rfind(raw, "]")
        sub == json_loads(Slice(raw, s, e + 1))
        recovered == ~direct.ok /\ s # -1 /\ e # -1 /\ sub.ok
        v == IF direct.ok THEN direct.v ELSE sub.v
        valid == /\ direct.ok \/ recovered
                 /\ v.k = "array"
                 /\ Len(v.items) = Len(ls)
    IN  [valid |-> valid,                   \* parses to an array of the input length
         bracket |-> valid /\ recovered,    \* ... through the bracket substring
         arr |-> IF valid THEN v.items ELSE <<>>]

BatchEntry(ls, class, outcome) ==
    [kind |-> "batch", sent |-> ls, valid |-> class.valid, bracket |-> class.bracket,
     arr |-> class.arr, outcome |-> outcome]

LineEntry(line, outcome) ==
    [kind |-> "line", sent |-> <<line>>, valid |-> FALSE, bracket |-> FALSE,
     arr |-> <<>>, outcome |-> outcome]

NoResponse == [valid |-> FALSE, bracket |-> FALSE, arr |-> <<>>]

(***************************************************************************)
(* translate_lines.                                                        *)
(***************************************************************************)
\* lines 64-69
translate_lines_begin ==
    /\ pc = "tl_entry"
    /\ log' = <<>>
    /\ attempt' = 0
    /\ pos' = 1
    /\ translated_lines' = <<>>
    /\ pc' = IF no_lines(lines) THEN "tl_returned" ELSE "tl_attempt"
    /\ UNCHANGED <<lines, calls, exc, tf_vars, disk, main_vars>>

\* lines 71-100, the oracle answering
translate_lines_attempt ==
    /\ pc = "tl_attempt"
    /\ \E output \in Responses :
         LET raw == call_codex(output, {WsTok})
             r == structured_attempt(raw, lines, attempt)
             outcome == CASE r.act = "return" -> "accepted"
                          [] r.act = "raise" -> "raised"
                          [] OTHER -> "discarded"
         IN  /\ log' = Append(log, BatchEntry(lines, ResponseClass(raw, lines), outcome))
             /\ translated_lines' = r.texts
             /\ exc' = r.exc
             /\ attempt' = IF r.act = "continue" THEN attempt + 1 ELSE attempt
             /\ pc' = CASE r.act = "return" -> "tl_returned"
                        [] r.act = "raise" -> "raised"
                        [] r.act = "break" -> "tl_fallback"
                        [] OTHER -> IF attempt + 1 < MaxAttempts
                                    THEN "tl_attempt" ELSE "tl_fallback"
    /\ calls' = calls + 1
    /\ UNCHANGED <<lines, pos, tf_vars, disk, main_vars>>

\* line 79, call_codex raising (subprocess.run with check=True)
translate_lines_attempt_fails ==
    /\ pc = "tl_attempt"
    /\ log' = Append(log, BatchEntry(lines, NoResponse, "failed"))
    /\ calls' = calls + 1
    /\ exc' = "CalledProcessError"
    /\ pc' = "raised"
    /\ UNCHANGED <<lines, attempt, pos, translated_lines, tf_vars, disk, main_vars>>

\* lines 103-112: one iteration of the fallback loop, the oracle answering
translate_lines_fallback_line ==
    /\ pc = "tl_fallback"
    /\ pos <= Len(lines)
    /\ IF lines[pos] = <<>>
       THEN /\ translated_lines' = Append(translated_lines, Str(<<>>))
            /\ UNCHANGED <<log, calls>>
       ELSE /\ \E output \in Answers :
                 translated_lines' =
                     Append(translated_lines,
                            Str(Strip(call_codex(output, Whitespace), Whitespace)))
            /\ log' = Append(log, LineEntry(lines[pos], "answered"))
            /\ calls' = calls + 1
    /\ pos' = pos + 1
    /\ UNCHANGED <<pc, lines, attempt, exc, tf_vars, disk, main_vars>>

\* line 112, call_codex raising
translate_lines_fallback_fails ==
    /\ pc = "tl_fallback"
    /\ pos <= Len(lines)
    /\ lines[pos] # <<>>
    /\ log' = Append(log, LineEntry(lines[pos], "failed"))
    /\ calls' = calls + 1
    /\ exc' = "CalledProcessError"
    /\ pc' = "raised"
    /\ UNCHANGED <<lines, attempt, pos, translated_lines, tf_vars, disk, main_vars>>

\* lines 113-115
translate_lines_fallback_return ==
    /\ pc = "tl_fallback"
    /\ pos > Len(lines)
    /\ IF same_length(translated_lines, lines)
       THEN pc' = "tl_returned" /\ exc' = exc
       ELSE pc' = "raised" /\ exc' = "ValueError"
    /\ UNCHANGED <<tl_vars, tf_vars, disk, main_vars>>

(***************************************************************************)
(* File names and the file system.                                         *)
(***************************************************************************)
DotSrt == <<".", "s", "r", "t">>
DotRuSrt == <<".", "r", "u", ".", "s", "r", "t">>
UnderRuSrt == <<"_", "r", "u", ".", "s", "r", "t">>

\* str.endswith
ends_with(s, suffix) ==
    /\ Len(s) >= Len(suffix)
    /\ SubSeq(s, Len(s) - Len(suffix) + 1, Len(s)) = suffix

\* line 156
is_marked(name) == ends_with(name, DotRuSrt) \/ ends_with(name, UnderRuSrt)

\* line 159: path.with_name(path.name[:-4] + ".ru.srt")
out_name(name) == SubSeq(name, 1, Len(name) - 4) \o DotRuSrt

code_point(c) ==
    CASE c = "." -> 46 [] c = "_" -> 95 [] c = "a" -> 97 [] c = "b" -> 98
      [] c = "r" -> 114 [] c = "s" -> 115 [] c = "t" -> 116 [] c = "u" -> 117

RECURSIVE str_less(_, _)
str_less(a, b) ==
    IF b = <<>> THEN FALSE
    ELSE IF a = <<>> THEN TRUE
    ELSE IF Head(a) = Head(b) THEN str_less(Tail(a), Tail(b))
    ELSE code_point(Head(a)) < code_point(Head(b))

RECURSIVE sorted(_)
sorted(S) ==
    IF S = {} THEN <<>>
    ELSE LET least == CHOOSE x \in S : \A y \in S \ {x} : str_less(x, y)
         IN  <<least>> \o sorted(S \ {least})

\* line 149: sorted(repo_root.rglob("*.srt"))
rglob_srt(d) == sorted({n \in DOMAIN d : d[n].exists /\ ends_with(n, DotSrt)})

NoFile == [exists |-> FALSE, data |-> <<>>]

File(data) == [exists |-> TRUE, data |-> data]

(***************************************************************************)
(* translate_file.                                                         *)
(***************************************************************************)
\* block[1:], a slice that starts at the time line
text_from_time_line(block) == SubSeq(block, 2, Len(block))

\* line 130: block[2:]
text_of(block) == SubSeq(block, 3, Len(block))

\* blocks[start : start + BATCH_SIZE + 1], a slice that is one block too long
batch_one_more(bs, st) == SubSeq(bs, st + 1, Min(st + BATCH_SIZE + 1, Len(bs)))

\* line 126: blocks[start : start + BATCH_SIZE]
batch_at(bs, st) == SubSeq(bs, st + 1, Min(st + BATCH_SIZE, Len(bs)))

\* lines 127-132: text_lines, the text lines of the blocks lo..hi of the batch
RECURSIVE flatten_from(_, _, _)
flatten_from(batch, lo, hi) ==
    IF lo > hi THEN <<>>
    ELSE IF lo = hi THEN text_of(batch[lo])
    ELSE LET mid == (lo + hi) \div 2
         IN  flatten_from(batch, lo, mid) \o flatten_from(batch, mid + 1, hi)

flatten(batch) == flatten_from(batch, 1, Len(batch))

\* the inner loop without line 143: the cursor stays where it is
RECURSIVE write_texts_cursor_stays(_, _, _, _)
write_texts_cursor_stays(data, tl, index, count) ==
    IF count = 0 THEN [data |-> data, exc |-> "", index |-> index]
    ELSE IF index > Len(tl) THEN [data |-> data, exc |-> "IndexError", index |-> index]
    ELSE IF tl[index].t # "str"
         THEN [data |-> data, exc |-> "TypeError", index |-> index]
    ELSE write_texts_cursor_stays(Append(data, tl[index].s \o <<"\n">>), tl, index, count - 1)

\* lines 141-143: write count entries of tl from position index on
RECURSIVE write_texts(_, _, _, _)
write_texts(data, tl, index, count) ==
    IF count = 0 THEN [data |-> data, exc |-> "", index |-> index]
    ELSE IF index > Len(tl) THEN [data |-> data, exc |-> "IndexError", index |-> index]
    ELSE IF tl[index].t # "str"
         THEN [data |-> data, exc |-> "TypeError", index |-> index]
    ELSE write_texts(Append(data, tl[index].s \o <<"\n">>), tl, index + 1, count - 1)

\* lines 136-144: the loop over the blocks k..last of the batch, from the state
\* st of the loop (the output so far, the exception raised, the cursor)
RECURSIVE write_blocks(_, _, _, _, _, _)
write_blocks(st, batch, counts, tl, k, last) ==
    IF k > last \/ st.exc # "" THEN st
    ELSE LET block == batch[k]
             number_line == block[1]
             time_line == IF Len(block) > 1 THEN block[2] ELSE <<>>
             head == st.data \o <<number_line \o <<"\n">>, time_line \o <<"\n">> >>
             r == write_texts(head, tl, st.index, counts[k])
         IN  IF r.exc # "" THEN r
             ELSE write_blocks([r EXCEPT !.data = Append(r.data, <<"\n">>)],
                               batch, counts, tl, k + 1, last)

\* the same loop, evaluated in runs of Run blocks
RECURSIVE write_runs(_, _, _, _, _)
write_runs(st, batch, counts, tl, k) ==
    IF st.exc # "" \/ k > Min(Len(batch), Len(counts)) THEN st
    ELSE write_runs(write_blocks(st, batch, counts, tl, k,
                                 Min(k + Run - 1, Min(Len(batch), Len(counts)))),
                    batch, counts, tl, k + Run)

\* lines 135-144
write_batch(data, batch, counts, tl) ==
    write_runs([data |-> data, exc |-> "", index |-> 1], batch, counts, tl, 1)

\* lines 119-121: read, parse, open the output for writing
translate_file_open ==
    /\ pc = "tf_entry"
    /\ blocks' = parse_srt_blocks(disk[path].data)
    /\ disk' = [disk EXCEPT ![out_path] = File(<<>>)]
    /\ start' = 0
    /\ invoked' = 0
    /\ pc' = "tf_loop"
    /\ UNCHANGED <<exc, tl_vars, path, out_path, line_counts, main_vars>>

\* line 119, read_text raising
translate_file_read_fails ==
    /\ pc = "tf_entry"
    /\ exc' = "OSError"
    /\ pc' = "raised"
    /\ UNCHANGED <<tl_vars, tf_vars, disk, main_vars>>

\* lines 122-134: take the next batch, flatten it, call translate_lines
translate_file_batch ==
    /\ pc = "tf_loop"
    /\ start < Len(blocks)
    /\ LET batch == batch_at(blocks, start)
       IN  /\ line_counts' = [k \in 1..Len(batch) |-> Len(text_of(batch[k]))]
           /\ lines' = flatten(batch)
    /\ invoked' = invoked + 1
    /\ pc' = "tl_entry"
    /\ UNCHANGED <<exc, attempt, pos, translated_lines, log, calls,
                   path, out_path, blocks, start, disk, main_vars>>

\* lines 135-144: write the batch's blocks
translate_file_write ==
    /\ pc = "tl_returned"
    /\ start < Len(blocks)
    /\ LET r == write_batch(disk[out_path].data, batch_at(blocks, start),
                           line_counts, translated_lines)
       IN  /\ disk' = [disk EXCEPT ![out_path] = File(r.data)]
           /\ exc' = r.exc
           /\ pc' = IF r.exc = "" THEN "tf_loop" ELSE "raised"
           /\ start' = IF r.exc = "" THEN start + BATCH_SIZE ELSE start
    /\ UNCHANGED <<tl_vars, path, out_path, blocks, line_counts, invoked, main_vars>>

\* line 122, the loop is over: the output is closed and translate_file returns
translate_file_close ==
    /\ pc = "tf_loop"
    /\ start >= Len(blocks)
    /\ pc' = "tf_returned"
    /\ UNCHANGED <<exc, tl_vars, tf_vars, disk, main_vars>>

(***************************************************************************)
(* main.                                                                   *)
(***************************************************************************)
AtFile == pc = "main_loop" /\ fidx <= Len(srt_files)

\* a loop that counts the file before it looks at the marker
main_skip_marked_counted ==
    /\ AtFile
    /\ is_marked(srt_files[fidx])
    /\ found' = found + 1
    /\ fidx' = fidx + 1
    /\ UNCHANGED <<pc, exc, tl_vars, tf_vars, disk, srt_files, translated,
                   skipped, errors, attempted, exit_code>>

\* lines 156-157
main_skip_marked ==
    /\ AtFile
    /\ is_marked(srt_files[fidx])
    /\ fidx' = fidx + 1
    /\ UNCHANGED <<pc, exc, tl_vars, tf_vars, disk, srt_files, found, translated,
                   skipped, errors, attempted, exit_code>>

\* a loop that opens the output for writing before it tests that it exists
main_skip_existing_reopens ==
    /\ AtFile
    /\ ~is_marked(srt_files[fidx])
    /\ disk[out_name(srt_files[fidx])].exists
    /\ disk' = [disk EXCEPT ![out_name(srt_files[fidx])] = File(<<>>)]
    /\ found' = found + 1
    /\ skipped' = skipped + 1
    /\ fidx' = fidx + 1
    /\ UNCHANGED <<pc, exc, tl_vars, tf_vars, srt_files, translated, errors,
                   attempted, exit_code>>

\* lines 158-162
main_skip_existing ==
    /\ AtFile
    /\ ~is_marked(srt_files[fidx])
    /\ disk[out_name(srt_files[fidx])].exists
    /\ found' = found + 1
    /\ skipped' = skipped + 1
    /\ fidx' = fidx + 1
    /\ UNCHANGED <<pc, exc, tl_vars, tf_vars, disk, srt_files, translated, errors,
                   attempted, exit_code>>

\* lines 158-164: call translate_file
main_translate ==
    /\ AtFile
    /\ ~is_marked(srt_files[fidx])
    /\ ~disk[out_name(srt_files[fidx])].exists
    /\ found' = found + 1
    /\ path' = srt_files[fidx]
    /\ out_path' = out_name(srt_files[fidx])
    /\ attempted' = Append(attempted, srt_files[fidx])
    /\ pc' = "tf_entry"
    /\ UNCHANGED <<exc, tl_vars, blocks, start, line_counts, invoked, disk, srt_files,
                   fidx, translated, skipped, errors, exit_code>>

\* the locals of translate_file and translate_lines are gone once main has the
\* control back
FramesDropped ==
    /\ lines' = <<>>
    /\ attempt' = 0
    /\ pos' = 1
    /\ translated_lines' = <<>>
    /\ log' = <<>>
    /\ calls' = 0
    /\ path' = <<>>
    /\ out_path' = <<>>
    /\ blocks' = <<>>
    /\ start' = 0
    /\ line_counts' = <<>>
    /\ invoked' = 0

\* line 165
main_translated ==
    /\ pc = "tf_returned"
    /\ translated' = translated + 1
    /\ fidx' = fidx + 1
    /\ pc' = "main_loop"
    /\ FramesDropped
    /\ UNCHANGED <<exc, disk, srt_files, found, skipped, errors, attempted, exit_code>>

\* a handler that leaves the output where it is
unlink_never(d, name) == d

\* lines 167-168
unlink_if_exists(d, name) == IF d[name].exists THEN [d EXCEPT ![name] = NoFile] ELSE d

\* a handler that leaves the loop after the first error
main_except_stops ==
    /\ pc = "raised"
    /\ disk' = unlink_if_exists(disk, out_path)
    /\ errors' = Append(errors, [path |-> path, exc |-> exc])
    /\ exc' = ""
    /\ fidx' = Len(srt_files) + 1
    /\ pc' = "main_loop"
    /\ FramesDropped
    /\ UNCHANGED <<srt_files, found, translated, skipped, attempted, exit_code>>

\* lines 166-169
main_except ==
    /\ pc = "raised"
    /\ disk' = unlink_if_exists(disk, out_path)
    /\ errors' = Append(errors, [path |-> path, exc |-> exc])
    /\ exc' = ""
    /\ fidx' = fidx + 1
    /\ pc' = "main_loop"
    /\ FramesDropped
    /\ UNCHANGED <<srt_files, found, translated, skipped, attempted, exit_code>>

\* a status that is 1 only from the second error on
exit_status_second_error(errs) == IF Len(errs) > 1 THEN 1 ELSE 0

\* line 182: return 0 if not errors else 1
exit_status(errs) == IF errs = <<>> THEN 0 ELSE 1

\* lines 171-182
main_report ==
    /\ pc = "main_loop"
    /\ fidx > Len(srt_files)
    /\ exit_code' = exit_status(errors)
    /\ pc' = "done"
    /\ UNCHANGED <<exc, tl_vars, tf_vars, disk, srt_files, fidx, found, translated,
                   skipped, errors, attempted>>

(***************************************************************************)
(* Subtitle texts.                                                         *)
(***************************************************************************)
\* the text made of the lines ls, each ended by nl
join_lines(ls, nl) == [i \in 1..Len(ls) |-> ls[i] \o nl]

Digits == <<"1", "2", "3", "4", "5", "6", "7", "8", "9">>

\* block number k cut to n lines: index, time, text lines
BlockLines(k, n) ==
    SubSeq(<< <<Digits[k]>>, <<"t", " ">>, <<"a">>, <<" ", "b">> >>, 1, n)

RECURSIVE BlocksText(_, _)
BlocksText(shape, k) ==
    IF k > Len(shape) THEN <<>>
    ELSE join_lines(BlockLines(k, shape[k]), <<"\n">>) \o << <<"\n">> >>
            \o BlocksText(shape, k + 1)

\* n one-line blocks, each followed by a blank line
Filler(n) == [i \in 1..2 * n |-> IF i % 2 = 1 THEN <<"0", "\n">> ELSE <<"\n">>]

(***************************************************************************)
(* The whole program: main on a directory of .srt files.                   *)
(***************************************************************************)
NameA == <<"a">> \o DotSrt
NameB == <<"b">> \o DotSrt
NameBMarked == <<"b">> \o UnderRuSrt
Names == {NameA, NameB, out_name(NameA), out_name(NameB), NameBMarked}

OldOutput == << <<"o", "l", "d", "\n">> >>

MainTexts == {BlocksText(shape, 1) : shape \in {<<>>, <<3>>, <<1, 3>>}}

Init ==
    /\ disk \in [Names -> {NoFile} \cup {File(t) : t \in MainTexts \cup {OldOutput}}]
    /\ \A n \in Names :
          disk[n].exists =>
             (disk[n].data \in MainTexts) = (n \in {NameA, NameB})
    /\ srt_files = rglob_srt(disk)
    /\ fidx = 1
    /\ found = 0
    /\ translated = 0
    /\ skipped = 0
    /\ errors = <<>>
    /\ exit_code = -1
    /\ attempted = <<>>
    /\ pc = "main_loop"
    /\ lines = <<>>
    /\ attempt = 0
    /\ pos = 1
    /\ translated_lines = <<>>
    /\ exc = ""
    /\ log = <<>>
    /\ calls = 0
    /\ path = <<>>
    /\ out_path = <<>>
    /\ blocks = <<>>
    /\ start = 0
    /\ line_counts = <<>>
    /\ invoked = 0

Next ==
    \/ main_skip_marked
    \/ main_skip_existing
    \/ main_translate
    \/ main_translated
    \/ main_except
    \/ main_report
    \/ translate_file_open
    \/ translate_file_read_fails
    \/ translate_file_batch
    \/ translate_file_write
    \/ translate_file_close
    \/ translate_lines_begin
    \/ translate_lines_attempt
    \/ translate_lines_attempt_fails
    \/ translate_lines_fallback_line
    \/ translate_lines_fallback_fails
    \/ translate_lines_fallback_return

Spec == Init /\ [][Next]_vars

\* main is one sequential thread: as long as a step is possible (every oracle
\* call returns or fails), one is taken
SpecFair == Spec /\ WF_vars(Next)

(***************************************************************************)
(* translate_lines on its own, called with any list of at most MaxLines    *)
(* lines.                                                                  *)
(***************************************************************************)
InputLines == {<<>>, <<" ">>, <<"a">>}

InitLines ==
    /\ pc = "tl_entry"
    /\ lines \in SeqsUpTo(InputLines, MaxLines)
    /\ attempt = 0
    /\ pos = 1
    /\ translated_lines = <<>>
    /\ exc = ""
    /\ log = <<>>
    /\ calls = 0
    /\ path = <<>>
    /\ out_path = <<>>
    /\ blocks = <<>>
    /\ start = 0
    /\ line_counts = <<>>
    /\ invoked = 0
    /\ disk = <<>>
    /\ srt_files = <<>>
    /\ fidx = 1
    /\ found = 0
    /\ translated = 0
    /\ skipped = 0
    /\ errors = <<>>
    /\ exit_code = -1
    /\ attempted = <<>>

NextLines ==
    \/ translate_lines_begin
    \/ translate_lines_attempt
    \/ translate_lines_attempt_fails
    \/ translate_lines_fallback_line
    \/ translate_lines_fallback_fails
    \/ translate_lines_fallback_return

SpecLines == InitLines /\ [][NextLines]_vars

(***************************************************************************)
(* translate_file on its own, on one input file: every file of at most     *)
(* MaxBlocks blocks of 1 to 4 lines, and the files of BATCH_SIZE - 1       *)
(* one-line blocks followed by 1 to MaxBlocks blocks of 4 lines.           *)
(***************************************************************************)
MaxBlocks == 2

FileTexts ==
    {BlocksText(shape, 1) : shape \in SeqsUpTo(1..4, MaxBlocks)}
        \cup {Filler(BATCH_SIZE - 1) \o BlocksText([k \in 1..m |-> 4], 1) :
                 m \in 1..MaxBlocks}

FileCall(texts) ==
    /\ pc = "tf_entry"
    /\ path = NameA
    /\ out_path = out_name(NameA)
    /\ disk \in {[n \in {NameA, out_name(NameA)} |->
                    IF n = NameA THEN File(t) ELSE NoFile] : t \in texts}
    /\ lines = <<>>
    /\ attempt = 0
    /\ pos = 1
    /\ translated_lines = <<>>
    /\ exc = ""
    /\ log = <<>>
    /\ calls = 0
    /\ blocks = <<>>
    /\ start = 0
    /\ line_counts = <<>>
    /\ invoked = 0
    /\ srt_files = <<>>
    /\ fidx = 1
    /\ found = 0
    /\ translated = 0
    /\ skipped = 0
    /\ errors = <<>>
    /\ exit_code = -1
    /\ attempted = <<>>

InitFile == FileCall(FileTexts)

NextFile ==
    \/ translate_file_open
    \/ translate_file_read_fails
    \/ translate_file_batch
    \/ translate_file_write
    \/ translate_file_close
    \/ translate_lines_begin
    \/ translate_lines_attempt
    \/ translate_lines_attempt_fails
    \/ translate_lines_fallback_line
    \/ translate_lines_fallback_fails
    \/ translate_lines_fallback_return

SpecFile == InitFile /\ [][NextFile]_vars

\* both units: translate_lines called with any list, or by translate_file
InitUnits == InitLines \/ InitFile

SpecUnits == InitUnits /\ [][NextFile]_vars

(***************************************************************************)
(* Parsing and reassembly: translate_file on any text of at most MaxText   *)
(* lines, with a translation that returns every line as it is.             *)
(***************************************************************************)
MaxText == 7

TextLines == {<<>>, <<" ">>, <<"a">>, <<"b", " ">>}

\* every text of at most n lines, each line ended by "\n" or by "\r\n", the
\* last one possibly not ended
AnyTexts(n) ==
    LET ended == {join_lines(ls, nl) :
                     ls \in SeqsUpTo(TextLines, n), nl \in {<<"\n">>, <<"\r", "\n">>}}
        open == {t \in ended : t # <<>> /\ strip_eol(t[Len(t)]) # <<>>}
    IN  ended \cup {[t EXCEPT ![Len(t)] = strip_eol(t[Len(t)])] : t \in open}

InitRoundTrip == FileCall(AnyTexts(MaxText))

\* in place of translate_lines: the translation of each line is the line
identity_translation ==
    /\ pc = "tl_entry"
    /\ translated_lines' = [i \in 1..Len(lines) |-> Str(lines[i])]
    /\ pc' = "tl_returned"
    /\ UNCHANGED <<exc, lines, attempt, pos, log, calls, tf_vars, disk, main_vars>>

NextRoundTrip ==
    \/ translate_file_open
    \/ translate_file_batch
    \/ identity_translation
    \/ translate_file_write
    \/ translate_file_close

SpecRoundTrip == InitRoundTrip /\ [][NextRoundTrip]_vars

(***************************************************************************)
(* translate_file with the oracle, on any text of at most MaxText - 3      *)
(* lines, each ended by "\n", blank and whitespace-only lines included.    *)
(***************************************************************************)
InitBlankLines ==
    FileCall({join_lines(ls, <<"\n">>) : ls \in SeqsUpTo(TextLines, MaxText - 3)})

SpecBlankLines == InitBlankLines /\ [][NextFile]_vars

(***************************************************************************)
(* Observations on the record of oracle calls.                             *)
(***************************************************************************)
Returned == pc = "tl_returned"
Raised == pc = "raised"

BatchCalls == {i \in 1..Len(log) : log[i].kind = "batch"}
LineCalls == {i \in 1..Len(log) : log[i].kind = "line"}

\* the response came back and is not an array of the input length
ContractInvalid(e) == e.kind = "batch" /\ e.outcome # "failed" /\ ~e.valid

OracleFailed(e) == e.outcome = "failed"

RECURSIVE NonEmpty(_)
NonEmpty(ls) ==
    IF ls = <<>> THEN <<>>
    ELSE IF Head(ls) = <<>> THEN NonEmpty(Tail(ls))
    ELSE <<Head(ls)>> \o NonEmpty(Tail(ls))

\* the lines sent to the oracle by the fallback, in call order
FallbackSent == [i \in 1..Len(SelectSeq(log, LAMBDA e : e.kind = "line")) |->
                    SelectSeq(log, LAMBDA e : e.kind = "line")[i].sent[1]]

\* the result the spec describes for a parsed array: the text fields when the
\* first element is an object, the string forms otherwise
TextsOf(arr) ==
    IF arr # <<>> /\ arr[1].k = "object"
    THEN [i \in 1..Len(arr) |-> IF arr[i].k = "object" /\ arr[i].has
                                THEN arr[i].v ELSE Str(<<>>)]
    ELSE [i \in 1..Len(arr) |-> IF arr[i].k = "string" THEN arr[i].v
                                ELSE IF arr[i].k = "null" THEN Str(<<>>)
                                ELSE Str(py_str(arr[i]))]

\* the sum of f[lo..hi]
RECURSIVE Total(_, _, _)
Total(f, lo, hi) ==
    IF lo > hi THEN 0
    ELSE IF lo = hi THEN f[lo]
    ELSE LET mid == (lo + hi) \div 2
         IN  Total(f, lo, mid) + Total(f, mid + 1, hi)

\* translate_lines is running, or has returned, for a batch of translate_file
InBatch == blocks # <<>> /\ pc \in {"tl_entry", "tl_attempt", "tl_fallback", "tl_returned"}

(***************************************************************************)
(* C1: whenever translate_lines has returned, by an accepted structured    *)
(* response, by the fallback or on an empty input, the list it returns is  *)
(* exactly as long as the list it was given; and in translate_file the sum *)
(* of the per-block text-line counts of the batch equals the length of the *)
(* flattened list, hence of the translation result.                        *)
(***************************************************************************)
C1_LinesCountPreserved ==
    /\ Returned => Len(translated_lines) = Len(lines)
    /\ InBatch =>
          /\ Total(line_counts, 1, Len(line_counts)) = Len(lines)
          /\ Returned => Len(translated_lines) = Total(line_counts, 1, Len(line_counts))

\* a batch of several blocks, MaxBlocks of them with two text lines, translated
\* by the fallback after three discarded responses
C1_Witness ==
    /\ Returned
    /\ InBatch
    /\ Len(line_counts) > 1
    /\ Len(lines) = 2 * MaxBlocks
    /\ Len(log) = MaxAttempts + Len(lines)
    /\ Len(translated_lines) = 2 * MaxBlocks

(***************************************************************************)
(* C2: every position whose input line is the empty string holds the empty *)
(* string in the returned list, on either path, and the fallback sends no  *)
(* empty line to the oracle.                                               *)
(***************************************************************************)
C2_BlankLineInvariance ==
    /\ Returned =>
         \A i \in 1..Len(lines) :
            (lines[i] = <<>> /\ i <= Len(translated_lines))
               => translated_lines[i] = Str(<<>>)
    /\ \A i \in LineCalls : log[i].sent # << <<>> >>

(***************************************************************************)
(* C3: within one call there are at most 3 structured oracle calls; a      *)
(* per-line call is made only after 3 structured calls none of which gave  *)
(* an array of the input length; an accepted structured response is the    *)
(* last oracle call of the call.                                           *)
(***************************************************************************)
C3_RetryBound ==
    /\ Cardinality(BatchCalls) <= 3
    /\ \A i \in LineCalls :
          /\ i > 3
          /\ \A j \in 1..3 : ContractInvalid(log[j]) /\ log[j].outcome = "discarded"
    /\ \A i \in 1..Len(log) :
          (log[i].kind = "batch" /\ log[i].outcome = "accepted")
             => (i = Len(log) /\ Returned)

\* three discarded responses, then one call for each of MaxLines lines
C3_Witness ==
    /\ Returned
    /\ Len(log) = 3 + Len(lines)
    /\ Len(lines) = MaxLines
    /\ \A i \in 1..Len(lines) : lines[i] # <<>>

(***************************************************************************)
(* C4: when every structured response is contract-invalid and no oracle    *)
(* invocation fails, the call on a non-empty input does not raise; it      *)
(* makes exactly 3 structured calls, then one per-line call per non-empty  *)
(* line in input order, and returns.                                       *)
(***************************************************************************)
C4_InvalidResponsesOnlyDiscard ==
    (/\ lines # <<>>
     /\ \A i \in BatchCalls : ContractInvalid(log[i])
     /\ \A i \in 1..Len(log) : ~OracleFailed(log[i]))
    => /\ ~Raised
       /\ Returned => /\ Cardinality(BatchCalls) = 3
                      /\ FallbackSent = NonEmpty(lines)

(***************************************************************************)
(* C5: an oracle invocation that fails during a structured attempt is not  *)
(* propagated out of translate_lines.                                      *)
(***************************************************************************)
C5_StructuredFailureContained ==
    Raised => ~(log # <<>> /\ log[Len(log)].kind = "batch"
                           /\ log[Len(log)].outcome = "failed")

(***************************************************************************)
(* C6: a response that does not parse directly but whose substring from    *)
(* the first '[' to the last ']' parses to an array of the input length is *)
(* accepted: the call returns the texts of that array and that response is *)
(* the last oracle call.                                                   *)
(***************************************************************************)
C6_BracketRecoveryAccepted ==
    \A i \in 1..Len(log) :
       (log[i].kind = "batch" /\ log[i].bracket)
          => /\ log[i].outcome = "accepted"
             /\ i = Len(log)
             /\ Returned
             /\ translated_lines = TextsOf(log[i].arr)

(***************************************************************************)
(* C7: every parsed array of the input length is accepted without error,   *)
(* its result is the text fields (first element an object) or the string   *)
(* forms (otherwise), and every entry of the result is a string.           *)
(***************************************************************************)
C7_ArrayOfInputLengthAccepted ==
    \A i \in 1..Len(log) :
       (log[i].kind = "batch" /\ log[i].valid)
          => /\ log[i].outcome = "accepted"
             /\ Returned
             /\ translated_lines = TextsOf(log[i].arr)
             /\ \A j \in 1..Len(translated_lines) : translated_lines[j].t = "str"

(***************************************************************************)
(* The output of translate_file against the parsed blocks.                 *)
(***************************************************************************)
\* line is the index line or the time line of a parsed block
IsHeadLine(line) ==
    \E k \in 1..Len(blocks) : \E j \in 1..Min(2, Len(blocks[k])) : blocks[k][j] = line

TextCount(block) == IF Len(block) > 2 THEN Len(block) - 2 ELSE 0

\* the number of output lines of each block: index, time, texts, separator
OutSizes == [k \in 1..Len(blocks) |-> 3 + TextCount(blocks[k])]

(***************************************************************************)
(* C8: once translate_file has returned, the output is one output block    *)
(* per parsed block, in order; each output block starts with the block's   *)
(* index line, then its time line (the empty line when the block has one   *)
(* line), and ends with an empty line; and no line ever sent to the oracle *)
(* is an index line or a time line.                                        *)
(***************************************************************************)
C8_HeadLinesKept ==
    /\ \A i \in 1..Len(log) :
          \A j \in 1..Len(log[i].sent) : ~IsHeadLine(log[i].sent[j])
    /\ pc = "tf_returned" =>
          LET out == splitlines(disk[out_path].data)
              sizes == OutSizes
              \* the number of output lines before block k
              offset == [k \in 1..Len(blocks) + 1 |-> Total(sizes, 1, k - 1)]
          IN  /\ Len(out) = offset[Len(blocks) + 1]
              /\ \A k \in 1..Len(blocks) :
                    /\ out[offset[k] + 1] = blocks[k][1]
                    /\ out[offset[k] + 2] =
                          (IF Len(blocks[k]) > 1 THEN blocks[k][2] ELSE <<>>)
                    /\ out[offset[k + 1]] = <<>>

\* a file of two batches: BATCH_SIZE - 1 one-line blocks, then MaxBlocks blocks
\* of two text lines
C8_Witness ==
    /\ pc = "tf_returned"
    /\ Len(blocks) = BATCH_SIZE - 1 + MaxBlocks
    /\ Len(blocks[1]) = 1
    /\ Len(blocks[Len(blocks)]) = 4
    /\ Len(splitlines(disk[out_path].data)) = 3 * (BATCH_SIZE - 1) + 5 * MaxBlocks

(***************************************************************************)
(* Well-formed inputs and the round trip.                                  *)
(***************************************************************************)
Blank(line) == Strip(line, Whitespace) = <<>>

Empty(line) == line = <<>>

\* ls is made of blocks of an index line, a time line and one or more text
\* lines, with exactly one separator line, one that Sep admits, between two
\* blocks, and possibly one blank line at the end
WellFormed(ls, Sep(_)) ==
    /\ ls # <<>>
    /\ ~Blank(ls[1])
    /\ \A i \in 1..Len(ls) :
          Blank(ls[i]) => /\ i > 1
                          /\ ~Blank(ls[i - 1])
                          /\ i < Len(ls) => Sep(ls[i])
    /\ \A i \in 1..Len(ls) :
          (~Blank(ls[i]) /\ (i = 1 \/ Blank(ls[i - 1])))
             => /\ i + 2 <= Len(ls)
                /\ ~Blank(ls[i + 1])
                /\ ~Blank(ls[i + 2])

DropTrailingBlank(ls) ==
    IF ls # <<>> /\ Blank(ls[Len(ls)]) THEN SubSeq(ls, 1, Len(ls) - 1) ELSE ls

\* the output has the lines of the input
SameLines ==
    DropTrailingBlank(splitlines(disk[out_path].data))
        = DropTrailingBlank(splitlines(disk[path].data))

C10_ErroredFileLeavesNoOutput ==
    /\ \A i \in 1..Len(errors) : ~disk[out_name(errors[i].path)].exists
    /\ \A i, j \in 1..Len(errors) : errors[i].path = errors[j].path => i = j
    /\ pc = "main_loop" => found = Len(errors) + translated + skipped
    /\ pc = "done" =>
          \A k \in 1..Len(srt_files) :
             ~is_marked(srt_files[k]) =>
                (disk[out_name(srt_files[k])].exists
                    # (\E i \in 1..Len(errors) : errors[i].path = srt_files[k]))

\* the first file raised after its output was opened and partly written, the
\* second one was then translated
C10_Witness ==
    /\ pc = "done"
    /\ Len(errors) = 1
    /\ errors[1].path = NameA
    /\ errors[1].exc = "TypeError"
    /\ translated = 1
    /\ disk[out_name(NameB)].exists
    /\ exit_code = 1

(***************************************************************************)
(* Observations on main.                                                   *)
(***************************************************************************)
Done == pc = "done"

\* the discovered files that do not carry a translation marker
Unmarked == {srt_files[k] : k \in {i \in 1..Len(srt_files) : ~is_marked(srt_files[i])}}

ErrorPaths == {errors[i].path : i \in 1..Len(errors)}

Attempted == {attempted[i] : i \in 1..Len(attempted)}

(***************************************************************************)
(* C11: when main ends its status is non-zero exactly when at least one    *)
(* file's translation raised; with no file to translate, with only skipped *)
(* files, or with every attempted file translated, it is zero.             *)
(***************************************************************************)
C11_ExitStatus ==
    Done => /\ exit_code \in {0, 1}
            /\ (exit_code # 0) = (errors # <<>>)
            /\ (exit_code # 0) = (\E f \in Attempted : ~disk[out_name(f)].exists)
            /\ translated = Len(attempted) => exit_code = 0

\* one file was skipped, the other one raised (one error only), status 1
C11_Witness ==
    /\ Done
    /\ exit_code = 1
    /\ Len(errors) = 1
    /\ skipped = 1
    /\ translated = 0

(***************************************************************************)
(* C12: main eventually ends, and by then every discovered file that was   *)
(* not skipped has been passed to translate_file exactly once and has      *)
(* ended either translated (its output exists) or as a recorded error,     *)
(* however many earlier files failed.                                      *)
(***************************************************************************)
C12_MainFinishes ==
    /\ <>Done
    /\ [](Done =>
            /\ \A i, j \in 1..Len(attempted) : attempted[i] = attempted[j] => i = j
            /\ Attempted \subseteq Unmarked
            /\ \A f \in Unmarked \ Attempted : disk[out_name(f)].exists
            /\ Len(attempted) = found - skipped
            /\ \A f \in Attempted : disk[out_name(f)].exists # (f \in ErrorPaths)
            /\ translated + Len(errors) = Len(attempted))

\* both files were attempted and both raised
C12_Witness ==
    /\ Done
    /\ Len(attempted) = 2
    /\ Len(errors) = 2
    /\ ErrorPaths = {NameA, NameB}

\* main is at a file that carries no marker and whose output exists
AtExisting ==
    /\ AtFile
    /\ ~is_marked(srt_files[fidx])
    /\ disk[out_name(srt_files[fidx])].exists

(***************************************************************************)
(* C13: when main reaches a file whose output exists, its next step counts *)
(* the file as found and skipped, makes no oracle call, does not call      *)
(* translate_file and leaves the disk as it is; an oracle call is only     *)
(* ever made for a file passed to translate_file, so a run in which every  *)
(* file is skipped makes none; and the output of a file that was passed    *)
(* over still has the content it had before the run.                       *)
(***************************************************************************)
C13_ExistingOutputSkipped ==
    /\ [][AtExisting => /\ found' = found + 1
                        /\ skipped' = skipped + 1
                        /\ calls' = calls
                        /\ log' = log
                        /\ attempted' = attempted
                        /\ disk' = disk
                        /\ fidx' = fidx + 1
                        /\ pc' = "main_loop"]_vars
    /\ [](calls > 0 => (path \in Attempted /\ found > skipped))
    /\ [](\A k \in 1..Len(srt_files) :
             (k < fidx /\ srt_files[k] \in Unmarked \ Attempted)
                => disk[out_name(srt_files[k])] = File(OldOutput))

\* both files had their output: both are skipped, translate_file is never called
C13_Witness ==
    /\ Done
    /\ found = 2
    /\ skipped = 2
    /\ attempted = <<>>
    /\ calls = 0
    /\ disk[out_name(NameA)] = File(OldOutput)
    /\ disk[out_name(NameB)] = File(OldOutput)

(***************************************************************************)
(* C14: from the moment translate_file has opened its output, in every     *)
(* state up to its return or to the error that ends it, the output holds   *)
(* exactly the output blocks of the batches before the current one: the    *)
(* blocks of the current batch are written only once translate_lines has   *)
(* returned for it, and an error leaves no part of a batch in the output.  *)
(***************************************************************************)
C14_OutputHoldsWholeBatches ==
    (out_path # <<>> /\ disk[out_path].exists) =>
        LET out == splitlines(disk[out_path].data)
            sizes == OutSizes
            written == Min(start, Len(blocks))
            offset == [k \in 1..written + 1 |-> Total(sizes, 1, k - 1)]
        IN  /\ start % BATCH_SIZE = 0
            /\ Len(out) = offset[written + 1]
            /\ \A k \in 1..written : out[offset[k] + 1] = blocks[k][1]

(***************************************************************************)
(* The parsed blocks against the lines of the input.                       *)
(***************************************************************************)
\* every character of the line is whitespace (so is the empty line)
AllWhitespace(line) == \A i \in 1..Len(line) : line[i] \in Whitespace

\* the concatenation of bs[lo..hi]
RECURSIVE Joined(_, _, _)
Joined(bs, lo, hi) ==
    IF lo > hi THEN <<>>
    ELSE IF lo = hi THEN bs[lo]
    ELSE LET mid == (lo + hi) \div 2
         IN  Joined(bs, lo, mid) \o Joined(bs, mid + 1, hi)

\* translate_file has just parsed its input
JustParsed == pc = "tf_loop" /\ start = 0

(***************************************************************************)
(* C15: the blocks parse_srt_blocks returns are the maximal runs of        *)
(* consecutive non-blank lines of the input, in order: no block is empty,  *)
(* no block holds a line that is blank after trimming, the blocks put end  *)
(* to end are the non-blank lines of the input, each block is a run of     *)
(* consecutive lines with a blank line (or an end of the input) on either  *)
(* side, and so a last run that no blank line follows is a block too.      *)
(***************************************************************************)
C15_BlocksAreMaximalRuns ==
    JustParsed =>
        LET ls == splitlines(disk[path].data)
            kept == {i \in 1..Len(ls) : ~AllWhitespace(ls[i])}
            \* the position in ls of the k-th non-blank line
            at == [k \in 1..Cardinality(kept) |->
                     CHOOSE i \in kept : Cardinality({j \in kept : j <= i}) = k]
            sizes == [b \in 1..Len(blocks) |-> Len(blocks[b])]
            first == [b \in 1..Len(blocks) |-> Total(sizes, 1, b - 1) + 1]
            last == [b \in 1..Len(blocks) |-> Total(sizes, 1, b)]
        IN  /\ \A b \in 1..Len(blocks) : blocks[b] # <<>>
            /\ \A b \in 1..Len(blocks) :
                  \A j \in 1..Len(blocks[b]) : ~AllWhitespace(blocks[b][j])
            /\ Joined(blocks, 1, Len(blocks)) = [k \in 1..Cardinality(kept) |-> ls[at[k]]]
            /\ \A b \in 1..Len(blocks) :
                  /\ \A k \in first[b]..last[b] - 1 : at[k + 1] = at[k] + 1
                  /\ at[first[b]] = 1 \/ AllWhitespace(ls[at[first[b]] - 1])
                  /\ at[last[b]] = Len(ls) \/ AllWhitespace(ls[at[last[b]] + 1])

\* a text that starts with a blank line, has two blank lines in a row, one of
\* them of whitespace, and ends with a run that no end of line follows
C15_Witness ==
    /\ JustParsed
    /\ Len(blocks) = 2
    /\ LET text == disk[path].data
           ls == splitlines(text)
       IN  /\ ls[1] = <<>>
           /\ \E i \in 1..Len(ls) - 1 : ls[i] = <<" ">> /\ ls[i + 1] = <<>>
           /\ text[Len(text)] = <<"b", " ">>
           /\ blocks[2][Len(blocks[2])] = <<"b", " ">>

(***************************************************************************)
(* Reassembly of one batch.                                                *)
(***************************************************************************)
\* translate_lines has returned for the current batch, which is not yet written
BatchReturned == InBatch /\ pc = "tl_returned"

\* the current batch has just been written
BatchWritten == pc = "tf_loop" /\ start > 0

(***************************************************************************)
(* C16: when a batch has been written, output block i of the batch holds,  *)
(* after its index and time lines, exactly count_i lines: the entries of   *)
(* the translation result at the flat positions offset_i ..                *)
(* offset_i + count_i - 1 (offset_i: the sum of the counts of the earlier  *)
(* blocks of the batch), in order, and then one empty line; the cursor     *)
(* never reads past the end of the result, and it ends at its length.      *)
(***************************************************************************)
C16_BlocksReceiveTheirLines ==
    /\ exc # "IndexError"
    /\ BatchReturned =>
          LET r == write_batch(<<>>, batch_at(blocks, start), line_counts,
                               translated_lines)
          IN  /\ r.exc # "IndexError"
              /\ r.exc = "" => r.index = Len(translated_lines) + 1
    /\ BatchWritten =>
          LET out == splitlines(disk[out_path].data)
              from == start - BATCH_SIZE
              n == Len(line_counts)
              \* the output lines before the batch, and before its block i
              base == Total(OutSizes, 1, from)
              line == [i \in 1..n + 1 |-> base + 3 * (i - 1) + Total(line_counts, 1, i - 1)]
              \* the 0-based flat position of the first text of block i
              offset == [i \in 1..n |-> Total(line_counts, 1, i - 1)]
          IN  /\ Len(out) = line[n + 1]
              /\ \A i \in 1..n :
                    /\ line[i + 1] - line[i] = 3 + line_counts[i]
                    /\ \A j \in 1..line_counts[i] :
                          out[line[i] + 2 + j] = translated_lines[offset[i] + j].s
                    /\ out[line[i + 1]] = <<>>

\* a batch of two blocks of two text lines each, written with a result whose
\* entries differ
C16_Witness ==
    /\ BatchWritten
    /\ line_counts = <<2, 2>>
    /\ Len(translated_lines) = 4
    /\ translated_lines[1] # translated_lines[2]
    /\ translated_lines[3] # translated_lines[4]

(***************************************************************************)
(* C17: translate_file takes the parsed blocks in consecutive batches that *)
(* start at the multiples of BATCH_SIZE, in order; each batch holds        *)
(* BATCH_SIZE blocks, the last one what is left (at least one block), so   *)
(* every block is in exactly one batch; translate_lines is called once     *)
(* per batch, with the text lines of the blocks of that batch, when the    *)
(* output holds the blocks of all earlier batches and nothing else; at the *)
(* return it has been called ceil(number of blocks / BATCH_SIZE) times.    *)
(***************************************************************************)
C17_BatchesInOrder ==
    /\ start % BATCH_SIZE = 0
    /\ InBatch =>
          LET size == Len(line_counts)
              texts == [k \in 1..size |->
                          SubSeq(blocks[start + k], 3, Len(blocks[start + k]))]
          IN  /\ start < Len(blocks)
              /\ size = Min(BATCH_SIZE, Len(blocks) - start)
              /\ lines = Joined(texts, 1, size)
              /\ invoked = start \div BATCH_SIZE + 1
              /\ Len(disk[out_path].data) = Total(OutSizes, 1, start)
    /\ pc = "tf_loop" => invoked = start \div BATCH_SIZE
    /\ pc = "tf_returned" =>
          /\ start >= Len(blocks)
          /\ invoked = (Len(blocks) + BATCH_SIZE - 1) \div BATCH_SIZE
          /\ Len(disk[out_path].data) = Total(OutSizes, 1, Len(blocks))

\* a file of BATCH_SIZE + 1 blocks, translated in two batches
C17_Witness ==
    /\ pc = "tf_returned"
    /\ Len(blocks) = BATCH_SIZE + 1
    /\ invoked = 2
    /\ start = 2 * BATCH_SIZE
    /\ Len(line_counts) = 1

(***************************************************************************)
(* C18: at the head of main's loop and at its end, found is the sum of     *)
(* translated, skipped and the number of recorded errors; at the end every *)
(* discovered file without a marker was counted by exactly one of the      *)
(* three (translated, skipped or recorded as an error), and the files that *)
(* carry a marker were counted by none.                                    *)
(***************************************************************************)
C18_CountersPartitionFiles ==
    /\ pc \in {"main_loop", "done"} => found = translated + skipped + Len(errors)
    /\ Done =>
          /\ found = Cardinality(Unmarked)
          /\ ErrorPaths \subseteq Attempted
          /\ Attempted \subseteq Unmarked
          /\ Len(errors) = Cardinality(ErrorPaths)
          /\ translated = Cardinality(Attempted \ ErrorPaths)
          /\ skipped = Cardinality(Unmarked \ Attempted)

\* four files were discovered, two of them marked; one of the others was
\* translated and one skipped
C18_Witness ==
    /\ Done
    /\ Len(srt_files) = 4
    /\ Cardinality(Unmarked) = 2
    /\ found = 2
    /\ translated = 1
    /\ skipped = 1
    /\ errors = <<>>

\* every parsed block has fewer than three lines, so no text line
NoTextLines == \A k \in 1..Len(blocks) : Len(blocks[k]) < 3

(***************************************************************************)
(* C19: translate_lines called with the empty list returns the empty list  *)
(* and makes no oracle call (it never reaches the structured attempts or   *)
(* the fallback); so a batch whose blocks all have fewer than three lines  *)
(* is translated without an oracle call, and when translate_file returns   *)
(* for a file whose blocks are all such, or that has no block, no oracle   *)
(* call was made at all while the output holds, for each block, its index  *)
(* line, its time line (empty for a block of one line) and an empty line.  *)
(***************************************************************************)
C19_EmptyListNeedsNoOracle ==
    /\ lines = <<>> =>
          /\ pc \notin {"tl_attempt", "tl_fallback"}
          /\ Returned => translated_lines = <<>> /\ log = <<>>
    /\ (InBatch /\ NoTextLines) => lines = <<>> /\ calls = 0
    /\ (pc = "tf_returned" /\ NoTextLines) =>
          LET heads == [k \in 1..Len(blocks) |->
                          <<blocks[k][1],
                            IF Len(blocks[k]) > 1 THEN blocks[k][2] ELSE <<>>,
                            <<>> >>]
          IN  /\ calls = 0
              /\ disk[out_path].exists
              /\ splitlines(disk[out_path].data) = Joined(heads, 1, Len(blocks))
              /\ invoked = (IF blocks = <<>> THEN 0 ELSE 1)

\* a file of a one-line block and a two-line block has been written without
\* any oracle call
C19_Witness ==
    /\ pc = "tf_returned"
    /\ Len(blocks) = 2
    /\ Len(blocks[1]) = 1
    /\ Len(blocks[2]) = 2
    /\ invoked = 1
    /\ calls = 0
    /\ Len(splitlines(disk[out_path].data)) = 6

(***************************************************************************)
(* C20: no line of a list that translate_file passes to translate_lines is *)
(* empty or made of whitespace only; so while the fallback runs for a      *)
(* batch every line it has gone through made one oracle call (the branch   *)
(* for an empty line is never taken), and when it returns it has made      *)
(* exactly one call per flattened text line, with those lines in order.    *)
(***************************************************************************)
C20_NoBlankLineInBatch ==
    InBatch =>
        /\ \A i \in 1..Len(lines) : ~AllWhitespace(lines[i])
        /\ pc = "tl_fallback" =>
              /\ Cardinality(LineCalls) = pos - 1
              /\ Len(translated_lines) = pos - 1
              /\ pos <= Len(lines) => lines[pos] # <<>>
        /\ (Returned /\ LineCalls # {}) =>
              /\ Cardinality(LineCalls) = Len(lines)
              /\ FallbackSent = lines

\* the input has a whitespace-only line and a block with a text line, and the
\* fallback has returned after one call for that line
C20_Witness ==
    /\ InBatch
    /\ Returned
    /\ \E i \in 1..Len(disk[path].data) :
          /\ strip_eol(disk[path].data[i]) # <<>>
          /\ AllWhitespace(strip_eol(disk[path].data[i]))
    /\ Len(lines) = 1
    /\ Cardinality(BatchCalls) = MaxAttempts
    /\ Cardinality(LineCalls) = 1

====
